---- MODULE Spec2Model ----
(***************************************************************************)
(* A model of the pattern-matching engine of src/src/index.ts: the         *)
(* operator constructors either / neither, the arm builder when, and the   *)
(* dispatcher match.                                                       *)
(*                                                                         *)
(* JavaScript values are records [t, n, s]: t is the typeof-like kind, n   *)
(* the numeric payload (the number, the boolean as 0/1, or the heap        *)
(* address of an object) and s the text payload (the characters of a       *)
(* string, or "NaN" for the not-a-number value).  Objects live in `heap`   *)
(* and are compared by address, primitives by kind and payload.            *)
(***************************************************************************)
EXTENDS Integers, Sequences, FiniteSets, TLC

\* Longest pattern tuple / value tuple the caller builds.
MaxLen == 2
\* Longest element list handed to either(...) / neither(...).
MaxElems == 2
\* Number of objects the caller allocates.
MaxObjs == 1
\* Longest arm list handed to the function match returns.
MaxArms == 2

(***************************************************************************)
(* Values                                                                  *)
(***************************************************************************)
Num(k) == [t |-> "number", n |-> k, s |-> ""]
NaN == [t |-> "number", n |-> 0, s |-> "NaN"]
Str(x) == [t |-> "string", n |-> 0, s |-> x]
Bool(b) == [t |-> "boolean", n |-> IF b THEN 1 ELSE 0, s |-> ""]
Null == [t |-> "null", n |-> 0, s |-> ""]
Undefined == [t |-> "undefined", n |-> 0, s |-> ""]
Ref(addr) == [t |-> "object", n |-> addr, s |-> ""]

\* const WILDCARD_VALUE = '__primitive__match__wildcard__value__'
WILDCARD_VALUE == Str("__primitive__match__wildcard__value__")

\* const _ = WILDCARD_VALUE: the exported alias.
Underscore == WILDCARD_VALUE

\* a === b: same kind and payload (same address for objects); NaN equals nothing.
StrictEq(a, b) == a = b /\ a # NaN

\* a !== b
StrictNe(a, b) == ~StrictEq(a, b)

\* ToBoolean(v), as used by `pattern[i]?.operator` and by `matches && result`.
Truthy(v) ==
    CASE v.t = "object" -> TRUE
      [] v.t = "number" -> v.n # 0 /\ v.s # "NaN"
      [] v.t = "string" -> v.s # ""
      [] v.t = "boolean" -> v.n = 1
      [] OTHER -> FALSE

\* values[i]: reading past the end of an array gives undefined.
At(seq, i) == IF i \in DOMAIN seq THEN seq[i] ELSE Undefined

(***************************************************************************)
(* Operator constructors                                                   *)
(***************************************************************************)
operation(operator, elements) == [operator |-> operator, elements |-> elements]

either(elements) == operation(Str("either"), elements)

neither(elements) == operation(Str("neither"), elements)

\* An object literal written by the caller: {} and [] carry no operator
\* field (reading it gives undefined), { operator: tag } carries tag.
ObjectLiteral(tag) == [operator |-> tag, elements |-> <<>>]

(***************************************************************************)
(* Match outcomes                                                          *)
(***************************************************************************)
PositiveMatch(result) == [matches |-> TRUE, result |-> result]

NegativeMatch == [matches |-> FALSE]

\* Destructuring { matches, result }: a missing field reads as undefined.
ResultOf(outcome) ==
    IF "result" \in DOMAIN outcome THEN outcome.result ELSE Undefined

(***************************************************************************)
(* State                                                                   *)
(*   heap      : the objects the caller has allocated, by address          *)
(*   arms      : the matchers built with when, each the pattern and the    *)
(*               result its closure captures                               *)
(*   last      : the most recent application of a matcher, directly or     *)
(*               from match (<<>> if none)                                 *)
(*   call      : the invocation of match(...values)(...whens) in progress  *)
(*   written   : history: for each matcher, the arguments of the when call *)
(*               that built it, and whether the caller wrote each pattern  *)
(*               element through the exported _ or as a literal of its own *)
(*   allocated : history: every object as its constructor returned it      *)
(***************************************************************************)
VARIABLES heap, arms, last, call, written, allocated

vars == <<heap, arms, last, call, written, allocated>>

(***************************************************************************)
(* when: the matcher's comparison protocol                                 *)
(***************************************************************************)
\* Variant: only a pattern longer than the value tuple is turned away.
ArityMismatchOnlyLonger(pattern, values) == Len(pattern) > Len(values)

\* if (pattern.length != values.length) return { matches: false }
ArityMismatch(pattern, values) == Len(pattern) # Len(values)

\* Variant: the sentinel check is missing.
IsWildcardNever(p) == FALSE

\* pattern[i] === WILDCARD_VALUE
IsWildcard(p) == StrictEq(p, WILDCARD_VALUE)

\* pattern[i]?.operator: undefined for null and undefined (optional chaining)
\* and for the other primitives (no such property), the field for objects.
OperatorOf(p, h) == IF p.t = "object" THEN h[p.n].operator ELSE Undefined

\* const { operator, elements }: Operation = pattern[i]
ElementsOf(p, h) == IF p.t = "object" THEN h[p.n].elements ELSE <<>>

\* Variant: a default label shares the 'neither' case.
SwitchCaseDefaultNeither(operator) ==
    IF StrictEq(operator, Str("either")) THEN "either" ELSE "neither"

\* switch (operator) { case 'either': ... case 'neither': ... }
SwitchCase(operator) ==
    IF StrictEq(operator, Str("either")) THEN "either"
    ELSE IF StrictEq(operator, Str("neither")) THEN "neither"
    ELSE "none"

\* Variant: elements.includes(values[i]), under which NaN equals NaN.
EitherIncludes(elements, v) == \E k \in DOMAIN elements : elements[k] = v

\* elements.some((elem) => elem === values[i])
EitherSome(elements, v) == \E k \in DOMAIN elements : StrictEq(elements[k], v)

\* elements.every((elem) => elem !== values[i])
NeitherEvery(elements, v) == \A k \in DOMAIN elements : StrictNe(elements[k], v)

\* Variant: a falsy pattern element never matches.
LiteralDiffersOrFalsy(p, v) == ~Truthy(p) \/ StrictNe(p, v)

\* pattern[i] !== values[i]
LiteralDiffers(p, v) == StrictNe(p, v)

\* One iteration of the for loop: "continue" or "return" ({ matches: false }).
LoopBody(p, v, h) ==
    IF IsWildcard(p) THEN "continue"
    ELSE IF Truthy(OperatorOf(p, h)) /\ SwitchCase(OperatorOf(p, h)) = "either"
        THEN (IF EitherSome(ElementsOf(p, h), v) THEN "continue" ELSE "return")
    ELSE IF Truthy(OperatorOf(p, h)) /\ SwitchCase(OperatorOf(p, h)) = "neither"
        THEN (IF NeitherEvery(ElementsOf(p, h), v) THEN "continue" ELSE "return")
    ELSE IF LiteralDiffers(p, v) THEN "return"
    ELSE "continue"

\* Variant: the loop stops one position early (i < pattern.length - 1).
RECURSIVE LoopStoppingEarly(_, _, _, _, _)
LoopStoppingEarly(pattern, result, values, h, i) ==
    IF i > Len(pattern) - 1 THEN PositiveMatch(result)
    ELSE IF LoopBody(pattern[i], At(values, i), h) = "return" THEN NegativeMatch
    ELSE LoopStoppingEarly(pattern, result, values, h, i + 1)

\* for (let i = 0; i < pattern.length; ++i) { ... } return { matches: true, result }
RECURSIVE Loop(_, _, _, _, _)
Loop(pattern, result, values, h, i) ==
    IF i > Len(pattern) THEN PositiveMatch(result)
    ELSE IF LoopBody(pattern[i], At(values, i), h) = "return" THEN NegativeMatch
    ELSE Loop(pattern, result, values, h, i + 1)

\* when(pattern, result): the closure, as the values it captures.
when(pattern, result) == [pattern |-> pattern, result |-> result]

\* matcher(values): the body of the function when returns.
Apply(matcher, values, h) ==
    IF ArityMismatch(matcher.pattern, values) THEN NegativeMatch
    ELSE Loop(matcher.pattern, matcher.result, values, h, 1)

\* Variant: the loop consumes the captured pattern with pattern.shift().
MatcherAfterShift(matcher) ==
    IF matcher.pattern = <<>> THEN matcher
    ELSE [matcher EXCEPT !.pattern = Tail(@)]

\* The closure after an application: the body assigns to none of the
\* variables it captures (pattern, result) and calls no mutating method.
MatcherAfterApply(matcher) == matcher

\* The heap after an application: some / every only read the elements.
HeapAfterApply(h) == h

(***************************************************************************)
(* match: the dispatcher                                                   *)
(***************************************************************************)
\* Variant: selection on the matches flag alone.
QualifiesOnMatches(outcome) == outcome.matches

\* ({ matches, result }) => matches && result
Qualifies(outcome) == outcome.matches /\ Truthy(ResultOf(outcome))

\* .find(callback): the first element the callback accepts, in index order.
RECURSIVE Find(_, _)
Find(outcomes, i) ==
    IF i > Len(outcomes) THEN 0
    ELSE IF Qualifies(outcomes[i]) THEN i
    ELSE Find(outcomes, i + 1)

\* .find(...)?.result
FoundResult(outcomes) ==
    IF Find(outcomes, 1) = 0 THEN Undefined
    ELSE ResultOf(outcomes[Find(outcomes, 1)])

\* Variant: mapping stops at the first outcome the selection accepts.
MapDoneAtFirstQualifying(outcomes, whens) ==
    \/ Len(outcomes) = Len(whens)
    \/ Len(outcomes) > 0 /\ outcomes[Len(outcomes)].matches
                         /\ Truthy(ResultOf(outcomes[Len(outcomes)]))

\* whens.map(...) has called back on every element: only then is .find called.
MapDone(outcomes, whens) == Len(outcomes) = Len(whens)

\* No invocation of match in progress.
Idle == [pc |-> "idle", values |-> <<>>, outcomes |-> <<>>, applied |-> <<>>,
         returned |-> Undefined]

(***************************************************************************)
(* Inputs                                                                  *)
(***************************************************************************)
TuplesOver(S, n) == UNION {[1..k -> S] : k \in 0..n}

Refs(h) == {Ref(a) : a \in DOMAIN h}

\* A pattern element as the caller writes it.
ViaUnderscore == [origin |-> "_", value |-> Underscore]

AsLiteral(v) == [origin |-> "literal", value |-> v]

\* Literal pattern elements the caller writes (besides object references);
\* the last is a string of the caller's own with the sentinel's characters.
LiteralValues == {Num(0), Str(""), Undefined, NaN,
                  Str("__primitive__match__wildcard__value__")}

\* Runtime values the caller passes (besides object references).
RuntimeValues == {Num(0), Str(""), Undefined, NaN}

\* Results the caller attaches to a matcher it applies directly.
WhenResults == {Str("R"), Num(0)}

\* Element lists of the descriptors used inside longer tuples.
TupleElements == {<<Num(0)>>}

\* Tags of the object literals used inside longer tuples: {} or [], which
\* have no operator field.
TupleTags == {Undefined}

PatternInputs(h) == {ViaUnderscore} \cup {AsLiteral(v) : v \in LiteralValues \cup Refs(h)}

ValueInputs(h) == RuntimeValues \cup Refs(h)

\* Values the caller puts into element lists, and passes to one position.
ElemValues == {Num(0), NaN}

PositionValues(h) == ElemValues \cup {Null} \cup Refs(h)

\* Tags of the object literals probed at one position: none, a falsy tag,
\* and truthy tags that are neither 'either' nor 'neither'.
PositionTags == {Undefined, Str(""), Str("both"), Num(1)}

\* One position holding an object, alone or after a wildcard.
PositionPatterns(h) ==
    {<<AsLiteral(d)>> : d \in Refs(h)} \cup {<<ViaUnderscore, AsLiteral(d)>> : d \in Refs(h)}

PositionTuples(h) ==
    {<<v>> : v \in PositionValues(h)} \cup {<<Null, v>> : v \in PositionValues(h)}

\* Pattern tuples, value tuples and results of the dispatcher's arms; the
\* object at address 1 is the descriptor neither(0).
MatchHeap == <<neither(<<Num(0)>>)>>

MatchPatterns == {<<ViaUnderscore>>, <<AsLiteral(Ref(1))>>}

MatchValues == {<<>>, <<Num(0)>>, <<Null>>}

MatchResults == {Num(0), Str(""), Bool(FALSE), Null, Undefined, NaN,
                 Str("A"), Str("B")}

(***************************************************************************)
(* Initial states                                                          *)
(***************************************************************************)
Init ==
    /\ heap = <<>>
    /\ allocated = <<>>
    /\ arms = <<>>
    /\ written = <<>>
    /\ last = <<>>
    /\ call = Idle

\* The caller has built one descriptor before it builds its arms.
InitMatch ==
    /\ heap = MatchHeap
    /\ allocated = MatchHeap
    /\ arms = <<>>
    /\ written = <<>>
    /\ last = <<>>
    /\ call = Idle

(***************************************************************************)
(* Actions                                                                 *)
(***************************************************************************)
\* const d = either(...elements)
CallEither(elements) ==
    /\ call.pc = "idle"
    /\ arms = <<>>
    /\ Len(heap) < MaxObjs
    /\ heap' = Append(heap, either(elements))
    /\ allocated' = Append(allocated, either(elements))
    /\ UNCHANGED <<arms, written, last, call>>

\* const d = neither(...elements)
CallNeither(elements) ==
    /\ call.pc = "idle"
    /\ arms = <<>>
    /\ Len(heap) < MaxObjs
    /\ heap' = Append(heap, neither(elements))
    /\ allocated' = Append(allocated, neither(elements))
    /\ UNCHANGED <<arms, written, last, call>>

\* const o = {} / [] / { operator: tag }
NewObject(tag) ==
    /\ call.pc = "idle"
    /\ arms = <<>>
    /\ Len(heap) < MaxObjs
    /\ heap' = Append(heap, ObjectLiteral(tag))
    /\ allocated' = Append(allocated, ObjectLiteral(tag))
    /\ UNCHANGED <<arms, written, last, call>>

\* const arm = when(pattern, result), with at most `limit` arms built
CallWhen(inputs, result, limit) ==
    /\ call.pc = "idle"
    /\ Len(arms) < limit
    /\ LET pattern == [i \in DOMAIN inputs |-> inputs[i].value] IN
        /\ arms' = Append(arms, when(pattern, result))
        /\ written' = Append(written,
                         [pattern |-> pattern, result |-> result,
                          origin |-> [i \in DOMAIN inputs |-> inputs[i].origin]])
    /\ UNCHANGED <<heap, allocated, last, call>>

\* arms[k](values): a direct application of a matcher
ApplyArm(k, values) ==
    /\ call.pc = "idle"
    /\ k \in DOMAIN arms
    /\ last' = <<[arm |-> k, values |-> values,
                  outcome |-> Apply(arms[k], values, heap)]>>
    /\ arms' = [arms EXCEPT ![k] = MatcherAfterApply(arms[k])]
    /\ heap' = HeapAfterApply(heap)
    /\ UNCHANGED <<call, written, allocated>>

\* match(...values)(...whens) is entered, with the arms built so far
MatchCall(values) ==
    /\ call.pc = "idle"
    /\ call' = [Idle EXCEPT !.pc = "map", !.values = values]
    /\ UNCHANGED <<heap, allocated, arms, written, last>>

\* .map((when) => when(values)): the callback on the next element
MatchMap ==
    /\ call.pc = "map"
    /\ ~MapDone(call.outcomes, arms)
    /\ LET k == Len(call.outcomes) + 1
           outcome == Apply(arms[k], call.values, heap) IN
        /\ call' = [call EXCEPT !.outcomes = Append(@, outcome),
                                !.applied = Append(@, k)]
        /\ last' = <<[arm |-> k, values |-> call.values, outcome |-> outcome]>>
        /\ arms' = [arms EXCEPT ![k] = MatcherAfterApply(arms[k])]
        /\ heap' = HeapAfterApply(heap)
    /\ UNCHANGED <<written, allocated>>

\* .find(({ matches, result }) => matches && result)?.result
MatchFind ==
    /\ call.pc = "map"
    /\ MapDone(call.outcomes, arms)
    /\ call' = [call EXCEPT !.pc = "returned",
                            !.returned = FoundResult(call.outcomes)]
    /\ UNCHANGED <<heap, allocated, arms, written, last>>

\* the caller takes the returned value; the engine keeps nothing
MatchReturn ==
    /\ call.pc = "returned"
    /\ call' = Idle
    /\ UNCHANGED <<heap, allocated, arms, written, last>>

(***************************************************************************)
(* Specifications                                                          *)
(***************************************************************************)
\* The arm builder on whole tuples: the caller allocates its objects, then
\* evaluates when(pattern, result)(values).
Next ==
    \/ /\ arms = <<>> /\ Len(heap) < MaxObjs
       /\ \/ \E elements \in TupleElements : CallEither(elements)
          \/ \E elements \in TupleElements : CallNeither(elements)
          \/ \E tag \in TupleTags : NewObject(tag)
    \/ /\ arms = <<>>
       /\ \E inputs \in TuplesOver(PatternInputs(heap), MaxLen), result \in WhenResults :
             CallWhen(inputs, result, 1)
    \/ /\ arms # <<>> /\ last = <<>>
       /\ \E values \in TuplesOver(ValueInputs(heap), MaxLen) : ApplyArm(1, values)

Spec == Init /\ [][Next]_vars

\* The arm builder on one position holding an object, for every element
\* list: when([d], result)([v]) and when([_, d], result)([null, v]).
NextPosition ==
    \/ /\ arms = <<>> /\ Len(heap) < MaxObjs
       /\ \/ \E elements \in TuplesOver(ElemValues, MaxElems) : CallEither(elements)
          \/ \E elements \in TuplesOver(ElemValues, MaxElems) : CallNeither(elements)
          \/ \E tag \in PositionTags : NewObject(tag)
    \/ /\ arms = <<>>
       /\ \E inputs \in PositionPatterns(heap) : CallWhen(inputs, Str("R"), 1)
    \/ /\ arms # <<>> /\ last = <<>>
       /\ \E values \in PositionTuples(heap) : ApplyArm(1, values)

SpecPosition == Init /\ [][NextPosition]_vars

\* The dispatcher: a list of arms, applied directly and handed to match.
NextMatch ==
    \/ \E inputs \in MatchPatterns, result \in MatchResults :
          CallWhen(inputs, result, MaxArms)
    \/ \E k \in DOMAIN arms, values \in MatchValues : ApplyArm(k, values)
    \/ \E values \in MatchValues : MatchCall(values)
    \/ MatchMap
    \/ MatchFind
    \/ MatchReturn

SpecMatch == InitMatch /\ [][NextMatch]_vars

(***************************************************************************)
(* Vocabulary of the properties                                            *)
(***************************************************************************)
\* A matcher has been applied; the properties below read that application.
Applied == last # <<>>

\* The pattern and the result the caller passed to when, the value tuple it
\* passed to the matcher, and the outcome the matcher returned.
ThePattern == written[last[1].arm].pattern

TheOrigin == written[last[1].arm].origin

TheResult == written[last[1].arm].result

TheValues == last[1].values

TheOutcome == last[1].outcome

\* The object at a reference, as its constructor returned it.
TagOf(p) == IF p.t = "object" THEN allocated[p.n].operator ELSE Undefined

ListOf(p) == IF p.t = "object" THEN allocated[p.n].elements ELSE <<>>

IsEither(p) == TagOf(p) = Str("either")

IsNeither(p) == TagOf(p) = Str("neither")

\* v is strictly equal to at least one element of the descriptor p.
Member(p, v) == \E k \in DOMAIN ListOf(p) : StrictEq(ListOf(p)[k], v)

\* The falsy values of the language.
Falsy == {Num(0), Str(""), Bool(FALSE), Null, Undefined, NaN}

(***************************************************************************)
(* Properties of when, on whole tuples (Spec)                              *)
(***************************************************************************)
\* Every position of equal-length tuples is strictly equal.
LiteralEqual ==
    /\ Len(ThePattern) = Len(TheValues)
    /\ \A i \in DOMAIN ThePattern : StrictEq(ThePattern[i], TheValues[i])

\* C2 as stated: for equal-length tuples whose positions are all strictly
\* equal (same primitive, or the same object reference), the outcome is
\* Positive and carries exactly r, whatever kind of element is involved.
C2_LiteralEqualIsPositive ==
    (Applied /\ LiteralEqual) => TheOutcome = PositiveMatch(TheResult)

\* C2 amended: the same, for pattern tuples none of whose elements is an
\* object tagged 'either' (a descriptor built by either(...)).
C2_LiteralEqualIsPositiveUnlessEither ==
    (Applied /\ LiteralEqual /\ \A i \in DOMAIN ThePattern : ~IsEither(ThePattern[i]))
        => TheOutcome = PositiveMatch(TheResult)

\* C2 witness: a falsy primitive and an object passed by the same reference
\* are matched, and the falsy result is carried.
C2_Witness ==
    /\ Applied
    /\ LiteralEqual
    /\ Len(ThePattern) = 2
    /\ ThePattern[1] = Undefined
    /\ ThePattern[2].t = "object"
    /\ ~IsEither(ThePattern[2])
    /\ TheOutcome = PositiveMatch(Num(0))

\* C3: when the tuples' lengths differ the outcome is Negative, a record
\* with no result, whatever the elements are.
C3_ArityMismatchIsNegative ==
    (Applied /\ Len(ThePattern) # Len(TheValues)) => TheOutcome = NegativeMatch

\* C3 witness: a shorter pattern whose every position would have matched.
C3_Witness ==
    /\ Applied
    /\ Len(ThePattern) = 1
    /\ Len(TheValues) = 2
    /\ ThePattern[1] = TheValues[1]
    /\ ThePattern[1].t = "object"
    /\ TheOutcome = NegativeMatch

\* A position fails its rule: an either descriptor with no element equal to
\* the value, a neither descriptor with an element equal to it, or a literal
\* (neither the sentinel nor a descriptor) not strictly equal to it.
PositionFails(p, v) ==
    IF IsEither(p) THEN ~Member(p, v)
    ELSE IF IsNeither(p) THEN Member(p, v)
    ELSE p # WILDCARD_VALUE /\ ~StrictEq(p, v)

\* C4: for equal-length tuples, one failing position makes the outcome
\* Negative whatever the other positions hold, and the Negative outcome is
\* the bare record: no result, no position.
C4_OneFailureIsNegative ==
    (/\ Applied
     /\ Len(ThePattern) = Len(TheValues)
     /\ \E i \in DOMAIN ThePattern : PositionFails(ThePattern[i], TheValues[i]))
        => TheOutcome = NegativeMatch

\* C4 witness: the last position fails a descriptor's rule after a wildcard.
C4_Witness ==
    /\ Applied
    /\ Len(ThePattern) = 2
    /\ Len(TheValues) = 2
    /\ ThePattern[1] = Underscore
    /\ IsEither(ThePattern[2]) \/ IsNeither(ThePattern[2])
    /\ PositionFails(ThePattern[2], TheValues[2])
    /\ TheOutcome = NegativeMatch

\* Values a position may hold, beyond those the caller passed.
AnyValues == ValueInputs(allocated) \cup {Undefined, Str(""), Bool(FALSE), WILDCARD_VALUE}

\* C5: a position holding _ matches whatever the value there: replacing the
\* value at that position by any other leaves the outcome as it was, and
\* when([_], r)([v]) is Positive with r.
C5_WildcardMatchesAnything ==
    Applied =>
        /\ (ThePattern = <<Underscore>> /\ Len(TheValues) = 1)
              => TheOutcome = PositiveMatch(TheResult)
        /\ \A i \in DOMAIN ThePattern \cap DOMAIN TheValues :
              ThePattern[i] = Underscore =>
                  \A w \in AnyValues :
                      Apply(when(ThePattern, TheResult),
                            [TheValues EXCEPT ![i] = w], allocated) = TheOutcome

\* C5 witness: _ written at the first position, a matching literal after it.
C5_Witness ==
    /\ Applied
    /\ Len(ThePattern) = 2
    /\ Len(TheValues) = 2
    /\ TheOrigin[1] = "_"
    /\ ThePattern[2] # Underscore
    /\ TheOutcome = PositiveMatch(TheResult)

\* C7: a pattern element the caller wrote as a literal of its own (not an
\* either / neither descriptor) is never treated as a wildcard: where the
\* outcome is Positive, the element is strictly equal to the value.
C7_LiteralIsNeverWildcard ==
    (Applied /\ TheOutcome.matches) =>
        \A i \in DOMAIN ThePattern :
            (/\ TheOrigin[i] = "literal"
             /\ ~IsEither(ThePattern[i])
             /\ ~IsNeither(ThePattern[i]))
                => StrictEq(ThePattern[i], TheValues[i])

(***************************************************************************)
(* Properties of when, on one position (SpecPosition)                      *)
(***************************************************************************)
\* The position under test is the last one; those before it hold _.
Probe == ThePattern[Len(ThePattern)]

Probed == TheValues[Len(TheValues)]

\* C6: a position holding either(...E) matches v iff v is strictly equal to
\* at least one element of E, and one holding neither(...E) iff to none:
\* either() matches nothing, neither() everything.
C6_EitherNeitherMembership ==
    (Applied /\ Len(ThePattern) = Len(TheValues)) =>
        /\ IsEither(Probe) => (TheOutcome.matches <=> Member(Probe, Probed))
        /\ IsNeither(Probe) => (TheOutcome.matches <=> ~Member(Probe, Probed))
        /\ (IsEither(Probe) /\ ListOf(Probe) = <<>>) => ~TheOutcome.matches
        /\ (IsNeither(Probe) /\ ListOf(Probe) = <<>>) => TheOutcome.matches

\* C6 witness: either with a duplicated element matches that element.
C6_Witness ==
    /\ Applied
    /\ Len(ThePattern) = Len(TheValues)
    /\ IsEither(Probe)
    /\ Len(ListOf(Probe)) = 2
    /\ ListOf(Probe)[1] = ListOf(Probe)[2]
    /\ TheOutcome.matches

\* The element carries a truthy operator tag that is not a recognised one.
UnrecognisedTag(p) == Truthy(TagOf(p)) /\ ~IsEither(p) /\ ~IsNeither(p)

\* C10: an element with a truthy operator tag other than 'either' and
\* 'neither' is compared as a plain literal: the position matches iff the
\* value is that same object, and the outcome is an ordinary match outcome.
C10_UnrecognisedTagIsLiteral ==
    (Applied /\ Len(ThePattern) = Len(TheValues) /\ UnrecognisedTag(Probe)) =>
        /\ TheOutcome.matches <=> StrictEq(Probe, Probed)
        /\ TheOutcome \in {NegativeMatch, PositiveMatch(TheResult)}

\* C10 witness: the tagged object is matched by its own reference.
C10_Witness ==
    /\ Applied
    /\ Len(ThePattern) = 2
    /\ Len(TheValues) = 2
    /\ UnrecognisedTag(Probe)
    /\ Probed = Probe
    /\ TheOutcome = PositiveMatch(TheResult)

(***************************************************************************)
(* Properties of match and of reuse (SpecMatch)                            *)
(***************************************************************************)
\* The outcome of arm i on the value tuple of the call.
OutcomeOn(i) ==
    Apply(when(written[i].pattern, written[i].result), call.values, allocated)

\* The arms that are Positive on the value tuple with a result that is not falsy.
Qualifying ==
    {i \in DOMAIN written : OutcomeOn(i).matches /\ written[i].result \notin Falsy}

First(S) == CHOOSE i \in S : \A j \in S : i <= j

\* C1: match returns the result of the first arm, in list order, that is
\* Positive with a truthy result; Positive arms with a falsy result are
\* passed over; with no such arm (or no arm) it returns undefined.
C1_FirstQualifyingArm ==
    call.pc = "returned" =>
        call.returned = IF Qualifying = {} THEN Undefined
                        ELSE written[First(Qualifying)].result

\* C1 witness: the first arm is Positive with a falsy result and the second
\* arm's result is returned.
C1_Witness ==
    /\ call.pc = "returned"
    /\ Len(written) = 2
    /\ OutcomeOn(1).matches
    /\ written[1].result \in Falsy
    /\ call.returned = written[2].result
    /\ call.returned = Str("B")

\* C8: by the time the result is selected every arm has been applied exactly
\* once, in list order; while mapping, the arms applied so far are the first
\* ones in order; and the arms after the first qualifying one, though
\* evaluated, do not change what is returned.
C8_AllArmsEvaluatedInOrder ==
    /\ call.pc = "map" =>
          /\ Len(call.applied) <= Len(arms)
          /\ call.applied = [i \in 1..Len(call.applied) |-> i]
    /\ call.pc = "returned" =>
          /\ call.applied = [i \in 1..Len(arms) |-> i]
          /\ Len(call.outcomes) = Len(arms)
          /\ \A i \in DOMAIN call.outcomes :
                (/\ call.outcomes[i].matches
                 /\ ResultOf(call.outcomes[i]) \notin Falsy
                 /\ \A j \in 1..(i - 1) :
                       ~call.outcomes[j].matches \/ ResultOf(call.outcomes[j]) \in Falsy)
                    => call.returned = ResultOf(call.outcomes[i])

\* C8 witness: the second arm was evaluated, and is Positive with a truthy
\* result, although the first arm already qualified and is the one returned.
C8_Witness ==
    /\ call.pc = "returned"
    /\ call.applied = <<1, 2>>
    /\ call.outcomes[1] = PositiveMatch(Str("A"))
    /\ call.outcomes[2] = PositiveMatch(Str("B"))
    /\ call.returned = Str("A")

====
